---------------------------- MODULE Spec2Model ----------------------------
(***************************************************************************)
(* A model of the community health unit registry (chul/models.py) and of   *)
(* the reference-data bootstrap command (data_bootstrap/.../bootstrap.py). *)
(*                                                                         *)
(* Each subsystem has its own next-state relation and specification:       *)
(*   Spec        community health units, one save at a time                *)
(*   ConcSpec    community health units, concurrent creating saves         *)
(*   BootSpec    the bootstrap management command                          *)
(*   RatingSpec  CHURating rows and CommunityHealthUnit.average_rating     *)
(*   WorkerSpec  CommunityHealthWorker rows                                *)
(*   BufferSpec  ChuUpdateBuffer                                           *)
(***************************************************************************)
EXTENDS Integers, Sequences, FiniteSets, TLC

VARIABLES
    \* ---- community health units ----
    db,         \* the chul_communityhealthunit table: unit -> row
    seq,        \* the last value the code sequence handed out
    issued,     \* history: the codes generate_next_code_sequence returned
    closed,     \* the facilities whose closed field is true
    lastOp,     \* history: the operation of the last save attempt
    onClosed,   \* history: that attempt's instance was on a closed facility
    errors,     \* the ValidationError keys the last save attempt raised
    pc,         \* ConcSpec: where each unit's creating save stands
    mem,        \* ConcSpec: the in-memory instance of each creating save
    \* ---- bootstrap command ----
    fs,         \* the data directory: path -> what is there
    tables,     \* the reference tables: model -> sequence of rows
    run,        \* the runs of the command over the files as they are now
    \* ---- CHURating ----
    ratings,    \* the chul_churating table: id -> row
    rsum,       \* history: per unit, the sum of the ratings stored for it
    rcount,     \* history: per unit, the number of ratings stored for it
    rlast,      \* history: the value and outcome of the last rating save
    \* ---- CommunityHealthWorker ----
    workers,    \* the chul_communityhealthworker table: id -> row
    wlast,      \* history: the instance and outcome of the last worker save
    \* ---- ChuUpdateBuffer ----
    buf,        \* the in-memory buffer instance: its three payloads
    bufRows,    \* the chul_chuupdatebuffer table: the rows stored
    bufRaised,  \* whether any call on the buffer has raised
    target,     \* the buffer's health unit: basic details, workers, contacts
    bufCalled   \* history: the buffer methods called so far

chuVars == <<db, seq, issued, closed, lastOp, onClosed, errors, pc, mem>>

bootVars == <<fs, tables, run>>

ratingVars == <<ratings, rsum, rcount, rlast>>

workerVars == <<workers, wlast>>

bufferVars == <<buf, bufRows, bufRaised, target, bufCalled>>

nonChuVars == <<bootVars, ratingVars, workerVars, bufferVars>>

vars == <<chuVars, nonChuVars>>

----------------------------------------------------------------------------
(* Bounds.  Units and facilities are two each; a code of the sequence, a
   run of the command, a rating row, a worker row and an id number are
   bounded by the numbers below. *)

MaxSeq == 2
MaxRuns == 2
MaxRatings == 3
MaxWorkers == 3
MaxIdNumber == 2

Units == {"u1", "u2"}
Facilities == {"f1", "f2"}

Range(s) == {s[i] : i \in DOMAIN s}

----------------------------------------------------------------------------
(* CommunityHealthUnit *)

\* An instance: the fields that save() and clean() read.  code = 0 stands
\* for "no code set" (None or 0: both are falsy in `not self.code`).
NewUnit ==
    [saved |-> FALSE, code |-> 0, facility |-> "f1",
     is_approved |-> FALSE, is_closed |-> FALSE, is_rejected |-> FALSE]

CHUObjects ==
    [saved : {FALSE}, code : 0..MaxSeq, facility : Facilities,
     is_approved : BOOLEAN, is_closed : BOOLEAN, is_rejected : BOOLEAN]

\* SequenceMixin.generate_next_code_sequence: the next value of the
\* database sequence of this entity type (an atomic nextval).
generate_next_code_sequence(s) == s + 1

\* save(), lines 122-123: a code is drawn only when none is set.
AssignCode_always(o, s) ==
    [obj |-> [o EXCEPT !.code = generate_next_code_sequence(s)],
     seq |-> generate_next_code_sequence(s)]

AssignCode(o, s) ==
    IF o.code = 0
    THEN [obj |-> [o EXCEPT !.code = generate_next_code_sequence(s)],
          seq |-> generate_next_code_sequence(s)]
    ELSE [obj |-> o, seq |-> s]

\* The keys of the ValidationError each validator raises ({} = none).
validate_facility_is_not_closed_off(o, cl) == {}

validate_facility_is_not_closed(o, cl) ==
    IF o.facility \in cl THEN {"facility"} ELSE {}

CountTrue(values) == Cardinality({i \in DOMAIN values : values[i]})

validate_either_approved_or_rejected_and_not_both_off(o) == {}

validate_either_approved_or_rejected_and_not_both(o) ==
    LET values == <<o.is_approved, o.is_rejected>>
    IN  IF CountTrue(values) > 1 THEN {"approve/reject"} ELSE {}

\* clean(): the first validator that raises ends it.  (The inherited
\* clean() it calls first is the framework's, which checks nothing here.)
clean(o, cl) ==
    LET e == validate_facility_is_not_closed(o, cl)
    IN  IF e # {} THEN e
        ELSE validate_either_approved_or_rejected_and_not_both(o)

\* code = SequenceField(unique=True): no other row holds the code.
code_unique_off(o, u, rows) == TRUE

code_unique(o, u, rows) ==
    \A v \in Units \ {u} : rows[v].saved => rows[v].code # o.code

\* Model.full_clean as AbstractBase.save calls it: clean() and
\* validate_unique() both run and their errors are merged.
full_clean(o, u, rows, cl) ==
    clean(o, cl) \cup (IF code_unique(o, u, rows) THEN {} ELSE {"code"})

\* CommunityHealthUnit.save(o), as one step: the code, then
\* AbstractBase.save (full_clean, then the INSERT or UPDATE under the
\* unique constraint on code).
SaveCHU(u, o) ==
    LET a    == AssignCode(o, seq)
        errs == full_clean(a.obj, u, db, closed)
    IN  /\ (o.code = 0 => seq < MaxSeq)
        /\ seq' = a.seq
        /\ issued' = IF a.seq # seq THEN Append(issued, a.obj.code) ELSE issued
        /\ errors' = errs
        /\ db' = IF errs = {} /\ code_unique(a.obj, u, db)
                 THEN [db EXCEPT ![u] = [a.obj EXCEPT !.saved = TRUE]]
                 ELSE db

Attempt(op, u, o) ==
    /\ SaveCHU(u, o)
    /\ lastOp' = op
    /\ onClosed' = (o.facility \in closed)
    /\ UNCHANGED <<closed, pc, mem, nonChuVars>>

\* A new unit is built (with or without an explicit code) and saved.
Create ==
    \E u \in Units : \E o \in CHUObjects :
        /\ ~db[u].saved
        /\ Attempt("create", u, o)

\* The workflow transitions are flag assignments followed by save().
Approve ==
    \E u \in Units :
        /\ db[u].saved
        /\ Attempt("approve", u, [db[u] EXCEPT !.is_approved = TRUE])

Reject ==
    \E u \in Units :
        /\ db[u].saved
        /\ Attempt("reject", u, [db[u] EXCEPT !.is_rejected = TRUE])

Close ==
    \E u \in Units :
        /\ db[u].saved
        /\ Attempt("close", u, [db[u] EXCEPT !.is_closed = TRUE])

\* An edit moves the unit to a facility or clears one of the flags.
EditFields == {"facility", "is_approved", "is_rejected", "is_closed"}

Edited(o, k, f) ==
    CASE k = "facility"    -> [o EXCEPT !.facility = f]
      [] k = "is_approved" -> [o EXCEPT !.is_approved = FALSE]
      [] k = "is_rejected" -> [o EXCEPT !.is_rejected = FALSE]
      [] k = "is_closed"   -> [o EXCEPT !.is_closed = FALSE]

Edit ==
    \E u \in Units : \E k \in EditFields : \E f \in Facilities :
        /\ db[u].saved
        /\ k # "facility" => f = db[u].facility
        /\ Attempt("edit", u, Edited(db[u], k, f))

\* Facility.closed is set or cleared by the facility registry.
SetFacilityClosed ==
    \E f \in Facilities : \E b \in BOOLEAN :
        /\ closed' = IF b THEN closed \cup {f} ELSE closed \ {f}
        /\ UNCHANGED <<db, seq, issued, lastOp, onClosed, errors, pc, mem,
                       nonChuVars>>

InitCHU ==
    /\ db = [u \in Units |-> NewUnit]
    /\ seq = 0
    /\ issued = <<>>
    /\ closed = {}
    /\ lastOp = "none"
    /\ onClosed = FALSE
    /\ errors = {}
    /\ pc = [u \in Units |-> "idle"]
    /\ mem = [u \in Units |-> NewUnit]

----------------------------------------------------------------------------
(* Concurrent creating saves (ConcSpec): save() of a new unit in the three
   steps that other requests can interleave with. *)

\* save() lines 122-123 on a new instance: the code is read from the
\* sequence (or was given by the caller) before anything is validated.
BeginSave ==
    \E u \in Units : \E c \in 0..MaxSeq : \E f \in Facilities :
        LET o == [NewUnit EXCEPT !.code = c, !.facility = f]
            a == AssignCode(o, seq)
        IN  /\ pc[u] = "idle"
            /\ ~db[u].saved
            /\ (c = 0 => seq < MaxSeq)
            /\ seq' = a.seq
            /\ issued' = IF a.seq # seq THEN Append(issued, a.obj.code)
                         ELSE issued
            /\ mem' = [mem EXCEPT ![u] = a.obj]
            /\ pc' = [pc EXCEPT ![u] = "clean"]
            /\ UNCHANGED <<db, closed, lastOp, onClosed, errors, nonChuVars>>

\* AbstractBase.save: full_clean() against the rows committed so far.
FullClean ==
    \E u \in Units :
        LET errs == full_clean(mem[u], u, db, closed)
        IN  /\ pc[u] = "clean"
            /\ errors' = errs
            /\ pc' = [pc EXCEPT ![u] = IF errs = {} THEN "persist" ELSE "idle"]
            /\ mem' = IF errs = {} THEN mem ELSE [mem EXCEPT ![u] = NewUnit]
            /\ UNCHANGED <<db, seq, issued, closed, lastOp, onClosed,
                           nonChuVars>>

\* The INSERT: the unique index on code refuses a duplicate
\* (IntegrityError), whatever full_clean saw earlier.
Persist ==
    \E u \in Units :
        /\ pc[u] = "persist"
        /\ IF code_unique(mem[u], u, db)
           THEN /\ db' = [db EXCEPT ![u] = [mem[u] EXCEPT !.saved = TRUE]]
                /\ errors' = {}
           ELSE /\ db' = db
                /\ errors' = {"IntegrityError"}
        /\ pc' = [pc EXCEPT ![u] = "idle"]
        /\ mem' = [mem EXCEPT ![u] = NewUnit]
        /\ UNCHANGED <<seq, issued, closed, lastOp, onClosed, nonChuVars>>

----------------------------------------------------------------------------
(* The bootstrap management command *)

\* handle(), lines 14-27: the paths it builds.  `owners` is bound twice;
\* the list is built from the second binding.
counties == "data/data/counties.json"
constituencies == "data/data/constituencies.json"
owners_first == "data/data/facility_owners.json"
owners == "data/data/service_categories.json"
job_titles == "data/data/job_titles.json"

args == <<counties, constituencies, owners, job_titles>>

Paths == {counties, constituencies, owners_first, owners, job_titles}

\* What a path can hold: nothing, a directory, a well-formed fixture file
\* or a file that is not valid JSON.
Kinds == {"absent", "dir", "file", "bad"}

\* The model each fixture file names, and the natural keys of its records.
ModelOf(p) ==
    CASE p = counties       -> "County"
      [] p = constituencies -> "Constituency"
      [] p = owners_first   -> "Owner"
      [] p = owners         -> "ServiceCategory"
      [] p = job_titles     -> "JobTitle"

Models == {ModelOf(p) : p \in Paths}

Records(p) == <<[model |-> ModelOf(p), key |-> "a"],
                [model |-> ModelOf(p), key |-> "b"]>>

os_path_exists(p) == fs[p] # "absent"

os_path_isfile(p) == fs[p] \in {"file", "bad"}

\* glob.glob of a pattern without wildcards: the path itself, if there.
glob_glob(p) == IF fs[p] # "absent" THEN <<p>> ELSE <<>>

\* Lines 31-36: the files one suggestion hands to process_json_file.
Resolve_unguarded(suggestion) == <<suggestion>>

Resolve(suggestion) ==
    IF os_path_exists(suggestion) /\ os_path_isfile(suggestion)
    THEN <<suggestion>>
    ELSE glob_glob(suggestion)

\* The upsert of one record, keyed by its natural identifier.
Upsert(rows, rec) ==
    IF \E i \in DOMAIN rows : rows[i].key = rec.key
    THEN [i \in DOMAIN rows |-> IF rows[i].key = rec.key THEN rec ELSE rows[i]]
    ELSE Append(rows, rec)

RECURSIVE UpsertAll(_, _)
UpsertAll(tbls, recs) ==
    IF recs = <<>> THEN tbls
    ELSE LET r == Head(recs)
         IN  UpsertAll([tbls EXCEPT ![r.model] = Upsert(@, r)], Tail(recs))

\* process_json_file(filename): a directory is skipped, a missing or
\* malformed file raises, a fixture file is upserted record by record.
process_json_file(filename, tbls) ==
    CASE fs[filename] = "dir"    -> [ok |-> TRUE, tables |-> tbls]
      [] fs[filename] = "file"   ->
            [ok |-> TRUE, tables |-> UpsertAll(tbls, Records(filename))]
      [] OTHER                   -> [ok |-> FALSE, tables |-> tbls]

\* The loop of lines 29-36 from the i-th file on; an exception ends it.
RECURSIVE ProcessFrom(_, _, _)
ProcessFrom(files, tbls, log) ==
    IF files = <<>> THEN [ok |-> TRUE, tables |-> tbls, log |-> log]
    ELSE LET r == process_json_file(Head(files), tbls)
         IN  IF r.ok
             THEN ProcessFrom(Tail(files), r.tables, Append(log, Head(files)))
             ELSE [ok |-> FALSE, tables |-> r.tables,
                   log |-> Append(log, Head(files))]

RECURSIVE Flatten(_)
Flatten(ss) == IF ss = <<>> THEN <<>> ELSE Head(ss) \o Flatten(Tail(ss))

\* The files of all suggestions, in the order the loop meets them.
Resolved == Flatten([i \in DOMAIN args |-> Resolve(args[i])])

NoRun == [n |-> 0, done |-> FALSE, log |-> <<>>]

\* Command.handle: one run; "Done loading" is written (done) when no
\* call raised.  log holds the files handed to process_json_file.
Handle ==
    LET r == ProcessFrom(Resolved, tables, <<>>)
    IN  /\ run.n < MaxRuns
        /\ tables' = r.tables
        /\ run' = [n |-> run.n + 1, done |-> r.ok, log |-> r.log]
        /\ UNCHANGED <<fs, chuVars, ratingVars, workerVars, bufferVars>>

\* The data directory changes between runs.
WriteFile ==
    \E p \in Paths : \E k \in Kinds :
        /\ fs[p] # k
        /\ fs' = [fs EXCEPT ![p] = k]
        /\ run' = NoRun
        /\ UNCHANGED <<tables, chuVars, ratingVars, workerVars, bufferVars>>

InitBoot ==
    /\ fs = [p \in Paths |-> "absent"]
    /\ tables = [m \in Models |-> <<>>]
    /\ run = NoRun

----------------------------------------------------------------------------
(* CHURating and CommunityHealthUnit.average_rating *)

RatingIds == 1..MaxRatings

\* The limits of the two validators of CHURating.rating.
RatingMax == 5
RatingMin == 0

\* The values a caller can try to save, one beyond each limit included.
RatingInputs == (RatingMin - 1)..(RatingMax + 1)

NoRating == [saved |-> FALSE, chu |-> "u1", rating |-> 0]

\* validators.MaxValueValidator(limit) and MinValueValidator(limit): TRUE
\* when the value is refused.
MaxValueValidator(limit, value) == value > limit

MinValueValidator(limit, value) == value < limit

\* The validators of the rating field, run by full_clean().
rating_errors_no_max(value) ==
    IF MinValueValidator(RatingMin, value) THEN {"rating"} ELSE {}

rating_errors(value) ==
    IF \/ MaxValueValidator(RatingMax, value)
       \/ MinValueValidator(RatingMin, value)
    THEN {"rating"}
    ELSE {}

\* AbstractBase.save of a CHURating: full_clean(), then the row is written.
SaveRating ==
    \E i \in RatingIds : \E u \in Units : \E v \in RatingInputs :
        LET errs == rating_errors(v)
            old  == ratings[i]
        IN  /\ rlast' = [tried |-> TRUE, value |-> v, ok |-> errs = {}]
            /\ IF errs = {}
               THEN /\ ratings' = [ratings EXCEPT
                                     ![i] = [saved |-> TRUE, chu |-> u,
                                             rating |-> v]]
                    /\ rsum' = [w \in Units |->
                                  rsum[w]
                                  - (IF old.saved /\ old.chu = w
                                     THEN old.rating ELSE 0)
                                  + (IF w = u THEN v ELSE 0)]
                    /\ rcount' = [w \in Units |->
                                    rcount[w]
                                    - (IF old.saved /\ old.chu = w
                                       THEN 1 ELSE 0)
                                    + (IF w = u THEN 1 ELSE 0)]
               ELSE UNCHANGED <<ratings, rsum, rcount>>
            /\ UNCHANGED <<chuVars, bootVars, workerVars, bufferVars>>

\* Numbers are exact fractions in lowest terms; None is SQL NULL.
None == [num |-> 0, den |-> 0]
Zero == [num |-> 0, den |-> 1]

RECURSIVE GCD(_, _)
GCD(a, b) == IF b = 0 THEN a ELSE GCD(b, a % b)

Fraction(n, d) == [num |-> n \div GCD(n, d), den |-> d \div GCD(n, d)]

RECURSIVE SumRatings(_)
SumRatings(ids) ==
    IF ids = {} THEN 0
    ELSE LET i == CHOOSE x \in ids : TRUE
         IN  ratings[i].rating + SumRatings(ids \ {i})

\* self.chu_ratings: the ratings whose chu is this unit (related_name).
chu_ratings_all(u) == {i \in RatingIds : ratings[i].saved}

chu_ratings(u) == {i \in RatingIds : ratings[i].saved /\ ratings[i].chu = u}

\* aggregate(r=models.Avg('rating'))['r']: NULL over no rows.
Avg(ids) ==
    IF ids = {} THEN None ELSE Fraction(SumRatings(ids), Cardinality(ids))

\* average_rating: `... or 0` turns None and a zero average into 0.
average_rating(u) ==
    LET r == Avg(chu_ratings(u))
    IN  IF r = None \/ r.num = 0 THEN Zero ELSE r

InitRating ==
    /\ ratings = [i \in RatingIds |-> NoRating]
    /\ rsum = [u \in Units |-> 0]
    /\ rcount = [u \in Units |-> 0]
    /\ rlast = [tried |-> FALSE, value |-> 0, ok |-> FALSE]

----------------------------------------------------------------------------
(* CommunityHealthWorker *)

WorkerIds == 1..MaxWorkers

\* id_number is null=True: 0 stands for None, 1..MaxIdNumber for numbers.
NoIdNumber == 0
IdNumbers == NoIdNumber..MaxIdNumber

NoWorker == [saved |-> FALSE, health_unit |-> "u1", id_number |-> NoIdNumber]

\* id_number = PositiveIntegerField(unique=True, null=True): no other row
\* holds the number; a null number is never compared.
id_number_unique(w, n) ==
    n = NoIdNumber
        \/ \A x \in WorkerIds \ {w} :
              workers[x].saved => workers[x].id_number # n

\* Meta.unique_together = ('id_number', 'health_unit'); a combination with
\* a null in it is never compared.
unique_together(w, n, u) ==
    n = NoIdNumber
        \/ \A x \in WorkerIds \ {w} :
              workers[x].saved =>
                  ~(workers[x].id_number = n /\ workers[x].health_unit = u)

\* validate_unique(), run by full_clean(): both declarations are checked.
worker_errors(w, n, u) ==
    (IF id_number_unique(w, n) THEN {} ELSE {"id_number"})
        \cup (IF unique_together(w, n, u) THEN {} ELSE {"__all__"})

\* AbstractBase.save of a worker (new, or a stored one changed).
SaveWorker ==
    \E w \in WorkerIds : \E u \in Units : \E n \in IdNumbers :
        LET errs == worker_errors(w, n, u)
        IN  /\ wlast' = [tried |-> TRUE, worker |-> w, health_unit |-> u,
                         id_number |-> n, errors |-> errs]
            /\ workers' = IF errs = {}
                          THEN [workers EXCEPT
                                  ![w] = [saved |-> TRUE, health_unit |-> u,
                                          id_number |-> n]]
                          ELSE workers
            /\ UNCHANGED <<chuVars, bootVars, ratingVars, bufferVars>>

InitWorker ==
    /\ workers = [w \in WorkerIds |-> NoWorker]
    /\ wlast = [tried |-> FALSE, worker |-> 1, health_unit |-> "u1",
                id_number |-> NoIdNumber, errors |-> {}]

----------------------------------------------------------------------------
(* ChuUpdateBuffer *)

Payloads == {"workers", "contacts", "basic"}

\* A payload is a TextField(null=True): None or some text.
PayloadValues == {"None", "text"}

Methods == {"validate_atleast_one_attribute_updated", "update_basic_details",
            "update_workers", "update_contacts", "updates", "save", "clean"}

InitTarget == [basic |-> "basic0", workers |-> "workers0",
               contacts |-> "contacts0"]

\* The effect of each method on [rows, target, raised], given the
\* instance b it is called on.  Every body is `pass`.
validate_atleast_one_attribute_updated(b, st) == st

update_basic_details(b, st) == st

update_workers(b, st) == st

update_contacts(b, st) == st

updates(b, st) == st

\* save(self) overrides Model.save and so stores nothing.
ChuUpdateBuffer_save_stores(b, st) == [st EXCEPT !.rows = @ \cup {b}]

ChuUpdateBuffer_save(b, st) == st

ChuUpdateBuffer_clean(b, st) == st

BufferState == [rows |-> bufRows, target |-> target, raised |-> bufRaised]

Call(method, st) ==
    /\ bufRows' = st.rows
    /\ target' = st.target
    /\ bufRaised' = st.raised
    /\ bufCalled' = bufCalled \cup {method}
    /\ UNCHANGED <<buf, chuVars, bootVars, ratingVars, workerVars>>

CallValidate ==
    Call("validate_atleast_one_attribute_updated",
         validate_atleast_one_attribute_updated(buf, BufferState))

CallUpdateBasicDetails ==
    Call("update_basic_details", update_basic_details(buf, BufferState))

CallUpdateWorkers ==
    Call("update_workers", update_workers(buf, BufferState))

CallUpdateContacts ==
    Call("update_contacts", update_contacts(buf, BufferState))

CallUpdates ==
    Call("updates", updates(buf, BufferState))

CallSave ==
    Call("save", ChuUpdateBuffer_save(buf, BufferState))

CallClean ==
    Call("clean", ChuUpdateBuffer_clean(buf, BufferState))

\* The caller sets or clears one of the payload fields of the instance.
SetPayload ==
    \E f \in Payloads : \E v \in PayloadValues :
        /\ buf' = [buf EXCEPT ![f] = v]
        /\ UNCHANGED <<bufRows, bufRaised, target, bufCalled,
                       chuVars, bootVars, ratingVars, workerVars>>

InitBuffer ==
    /\ buf = [f \in Payloads |-> "None"]
    /\ bufRows = {}
    /\ bufRaised = FALSE
    /\ target = InitTarget
    /\ bufCalled = {}

----------------------------------------------------------------------------
(* Claims about CommunityHealthUnit, checked under Spec *)

SaveOps == {"create", "approve", "reject", "close", "edit"}

\* C1: once a unit's code is assigned, no later save of the unit (approve,
\* reject, close, edit) removes the row or changes its code.
C1_CodeNeverReassigned ==
    [][\A u \in Units :
          db[u].saved => (db'[u].saved /\ db'[u].code = db[u].code)]_vars

\* C1 witness: a stored unit that holds a code of the sequence has been
\* saved again (approved) without error.
C1_Witness ==
    /\ lastOp = "approve"
    /\ errors = {}
    /\ \E u \in Units :
          /\ db[u].saved /\ db[u].is_approved
          /\ db[u].code \in Range(issued)
          /\ \A v \in Units \ {u} : ~db[v].saved

\* C2: no stored unit is both approved and rejected.
C2_NotApprovedAndRejected ==
    \A u \in Units : db[u].saved => ~(db[u].is_approved /\ db[u].is_rejected)

\* C2 witness: approving a stored rejected unit (or rejecting an approved
\* one) was refused with the approve/reject error.
C2_Witness ==
    /\ lastOp \in {"approve", "reject"}
    /\ errors = {"approve/reject"}
    /\ \E u \in Units : db[u].saved /\ (db[u].is_approved \/ db[u].is_rejected)

\* C3: a save of an instance whose facility is closed raises a validation
\* error that names 'facility' and leaves the table as it was.  (A step
\* that leaves `closed` alone is a save attempt.)
C3_ClosedFacilityBlocksSave ==
    [][(closed' = closed /\ onClosed')
          => (db' = db /\ "facility" \in errors')]_vars

\* C3 witness: a stored unit whose facility is closed, right after a save
\* attempt that raised the facility error.
C3_Witness ==
    /\ lastOp \in SaveOps
    /\ onClosed
    /\ "facility" \in errors
    /\ \E u \in Units : db[u].saved /\ db[u].facility \in closed

----------------------------------------------------------------------------
(* Claims about concurrent saves, checked under ConcSpec *)

\* C4: no two stored units hold the same code, however the steps of
\* concurrent creating saves interleave, and the sequence hands its codes
\* out in increasing order.
C4_CodesUnique ==
    /\ \A u, v \in Units :
          (u # v /\ db[u].saved /\ db[v].saved) => db[u].code # db[v].code
    /\ \A i, j \in DOMAIN issued : i < j => issued[i] < issued[j]

\* C4 witness: two saves overlapped: v drew its code first and is still
\* waiting to be inserted when u, which drew the later code, is stored.
C4_Witness ==
    \E u, v \in Units :
        /\ u # v
        /\ db[u].saved /\ db[u].code \in Range(issued)
        /\ pc[v] = "persist" /\ mem[v].code \in Range(issued)
        /\ mem[v].code < db[u].code

----------------------------------------------------------------------------
(* Claims about the bootstrap command, checked under BootSpec *)

NamedDataSets == {"data/data/counties.json", "data/data/constituencies.json",
                  "data/data/facility_owners.json",
                  "data/data/job_titles.json"}

\* C5: a completed run has handed each of the four named data sets that
\* exists to process_json_file.
C5_FourDataSetsProcessed ==
    run.done =>
        \A p \in NamedDataSets : fs[p] = "file" => p \in Range(run.log)

Count(rows, k) == Cardinality({i \in DOMAIN rows : rows[i].key = k})

Loaded(p) ==
    \A i \in DOMAIN Records(p) :
        Count(tables[ModelOf(p)], Records(p)[i].key) = 1

\* C6: a run completes unless a listed file is malformed, whatever paths
\* are missing; a completed run has loaded every listed file that exists;
\* a run after a completed run over the same files changes no table; and
\* no table ever holds two rows with one key.
C6_MissingFilesSkippedAndIdempotent ==
    [][/\ Handle =>
            /\ run'.done = (\A i \in DOMAIN args : fs[args[i]] # "bad")
            /\ run'.done =>
                  \A i \in DOMAIN args :
                      fs[args[i]] = "file" => Loaded(args[i])'
            /\ run.done => tables' = tables
       /\ \A m \in Models : \A i, j \in DOMAIN tables'[m] :
             tables'[m][i].key = tables'[m][j].key => i = j]_vars

\* C6 witness: the second of two completed runs over a directory in which
\* one listed file is missing and another is there and loaded.
C6_Witness ==
    /\ run.n = MaxRuns
    /\ run.done
    /\ fs[counties] = "absent"
    /\ fs[job_titles] = "file"
    /\ Loaded(job_titles)

----------------------------------------------------------------------------
(* Claims about ratings, checked under RatingSpec *)

\* C7: average_rating of a unit is the mean of the ratings stored for that
\* unit alone (sum / count, as an exact number), 4 for the ratings 3 and 5,
\* and 0 when the unit has no rating.
C7_AverageRatingIsMean ==
    \A u \in Units :
        LET a == average_rating(u)
        IN  /\ a.den > 0
            /\ a.num * rcount[u] = rsum[u] * a.den
            /\ rcount[u] = 0 => a = Zero
            /\ (rcount[u] = 2 /\ rsum[u] = 8) => a = [num |-> 4, den |-> 1]

\* C7 witness: a unit rated 3 and 5 while the other unit holds a rating of
\* its own, and a unit with no rating at all.
C7_Witness ==
    \E i, j, k \in RatingIds :
          /\ ratings[i].saved /\ ratings[i].chu = "u1" /\ ratings[i].rating = 3
          /\ ratings[j].saved /\ ratings[j].chu = "u1" /\ ratings[j].rating = 5
          /\ ratings[k].saved /\ ratings[k].chu = "u2" /\ ratings[k].rating = 1
          /\ average_rating("u1") = [num |-> 4, den |-> 1]
          /\ average_rating("u2") = [num |-> 1, den |-> 1]

\* C8: a rating save passes validation exactly when the value lies in
\* 0..5, so every stored rating lies in 0..5.
C8_RatingWithinRange ==
    /\ rlast.tried => (rlast.ok <=> (0 <= rlast.value /\ rlast.value <= 5))
    /\ \A i \in RatingIds :
          ratings[i].saved => (0 <= ratings[i].rating /\ ratings[i].rating <= 5)

\* C8 witness: ratings 0 and 5 are stored and a save of 6 was just refused.
C8_Witness ==
    /\ rlast = [tried |-> TRUE, value |-> 6, ok |-> FALSE]
    /\ \E i, j \in RatingIds :
          /\ ratings[i].saved /\ ratings[i].rating = 0
          /\ ratings[j].saved /\ ratings[j].rating = 5

----------------------------------------------------------------------------
(* Claims about workers, checked under WorkerSpec *)

\* C9: a worker save is refused for its id_number only when another worker
\* of the same health unit holds the same non-null id_number, and never
\* when the id_number is null.
C9_IdNumberUniquePerUnit ==
    (wlast.tried /\ wlast.errors # {}) =>
        /\ wlast.id_number # NoIdNumber
        /\ \E x \in WorkerIds \ {wlast.worker} :
              /\ workers[x].saved
              /\ workers[x].health_unit = wlast.health_unit
              /\ workers[x].id_number = wlast.id_number

----------------------------------------------------------------------------
(* Claims about the update buffer, checked under BufferSpec *)

\* C10: whatever buffer methods have been called, on whatever payloads, no
\* call has raised, no buffer row is stored and the health unit, its
\* workers and its contacts are as they were.
C10_BufferMethodsAreNoOps ==
    /\ ~bufRaised
    /\ bufRows = {}
    /\ target = InitTarget

\* C10 witness: every method has been called and the instance holds all
\* three payloads.
C10_Witness ==
    /\ bufCalled = Methods
    /\ \A f \in Payloads : buf[f] = "text"

----------------------------------------------------------------------------
(* Specifications *)

Init == InitCHU /\ InitBoot /\ InitRating /\ InitWorker /\ InitBuffer

Next ==
    \/ Create
    \/ Approve
    \/ Reject
    \/ Close
    \/ Edit
    \/ SetFacilityClosed

Spec == Init /\ [][Next]_vars

ConcNext ==
    \/ BeginSave
    \/ FullClean
    \/ Persist
    \/ SetFacilityClosed

ConcSpec == Init /\ [][ConcNext]_vars

BootNext ==
    \/ Handle
    \/ WriteFile

BootSpec == Init /\ [][BootNext]_vars

RatingNext == SaveRating

RatingSpec == Init /\ [][RatingNext]_vars

WorkerNext == SaveWorker

WorkerSpec == Init /\ [][WorkerNext]_vars

BufferNext ==
    \/ SetPayload
    \/ CallValidate
    \/ CallUpdateBasicDetails
    \/ CallUpdateWorkers
    \/ CallUpdateContacts
    \/ CallUpdates
    \/ CallSave
    \/ CallClean

BufferSpec == Init /\ [][BufferNext]_vars

=============================================================================
